---- MODULE Spec2Model ----
(***************************************************************************)
(* Sentence splitting of src/src/split_sentence.py, and the length        *)
(* threshold, the term filter, the batch function and the paragraph        *)
(* pipelines of src/src/analysis/analysis.py.                              *)
(*                                                                         *)
(* A text is a sequence of characters; a character is a one-element        *)
(* string, non-ASCII characters are written by their code point.          *)
(* Offsets reported by the program are Python offsets (0-based), slices    *)
(* are half-open as in Python.                                              *)
(***************************************************************************)
EXTENDS Integers, Sequences, FiniteSets, TLC

\* ------------------------------------------------------------------------
\* Characters and character classes
\* ------------------------------------------------------------------------
SP       == " "
TAB      == "\t"
NL       == "\n"
DOT      == "."
QMARK    == "?"
BANG     == "!"
CJKSTOP  == "u3002"
CJKBANG  == "uFF01"
CJKQMARK == "uFF1F"
RDQUOTE  == "u201D"
RSQUOTE  == "u2019"
CJKCOMMA == "uFF0C"
ELLIPSIS == "u2026"
SEPARATOR == "@"

\* str.isspace() / regex \s, restricted to the characters of the model
Whitespace == {SP, TAB, NL}
\* regex [A-Z], [a-z], \w, restricted to the characters of the model
Upper == {"A"}
Lower == {"a"}
Letter == Upper \cup Lower
WordChar == Letter
\* [。！？?]
Terminal == {CJKSTOP, CJKBANG, CJKQMARK, QMARK}
\* [”’]
ClosingQuote == {RDQUOTE, RSQUOTE}
\* [.!?]
SentenceEnd == {DOT, BANG, QMARK}

\* ------------------------------------------------------------------------
\* Python string primitives
\* ------------------------------------------------------------------------
\* s[i:j] for 0 <= i <= j <= len(s)
Slice(s, i, j) == SubSeq(s, i + 1, j)

\* number of leading whitespace characters of s
LeadingWs(s) ==
    IF \A n \in DOMAIN s : s[n] \in Whitespace THEN Len(s)
    ELSE (CHOOSE n \in DOMAIN s :
              /\ s[n] \notin Whitespace
              /\ \A m \in 1..(n - 1) : s[m] \in Whitespace) - 1

\* number of trailing whitespace characters of s
TrailingWs(s) ==
    IF \A n \in DOMAIN s : s[n] \in Whitespace THEN Len(s)
    ELSE Len(s) - (CHOOSE n \in DOMAIN s :
                       /\ s[n] \notin Whitespace
                       /\ \A m \in (n + 1)..Len(s) : s[m] \in Whitespace)

\* str.lstrip()
LStrip(s) == SubSeq(s, LeadingWs(s) + 1, Len(s))

\* Strip that trims nothing
StripNothing(s) == s

\* str.strip()
Strip(s) ==
    IF LeadingWs(s) = Len(s) THEN <<>>
    ELSE SubSeq(s, LeadingWs(s) + 1, Len(s) - TrailingWs(s))

RECURSIVE SplitFrom(_, _, _)
\* pieces of s between line breaks, cur is the piece being collected
SplitFrom(s, p, cur) ==
    IF p > Len(s) THEN <<cur>>
    ELSE IF s[p] = NL THEN <<cur>> \o SplitFrom(s, p + 1, <<>>)
    ELSE SplitFrom(s, p + 1, Append(cur, s[p]))

\* str.split("\n")
SplitLines(s) == SplitFrom(s, 1, <<>>)

\* ------------------------------------------------------------------------
\* The punctuation break rules (split_sentence, lines 170-179, and
\* split_sentence_with_index, lines 87-92: the same four patterns)
\* ------------------------------------------------------------------------
BreakRules == <<"TERMINAL", "SIX_DOTS", "ELLIPSIS2", "TERMINAL_QUOTE">>

\* length of group 1 of a break rule
Group1Len(rule) ==
    CASE rule = "TERMINAL"       -> 1
      [] rule = "SIX_DOTS"       -> 6
      [] rule = "ELLIPSIS2"      -> 2
      [] rule = "TERMINAL_QUOTE" -> 2

\* BreakMatches with any character as group 2
BreakMatchesAnyNext(rule, s, p) ==
    /\ p + Group1Len(rule) <= Len(s)
    /\ CASE rule = "TERMINAL" -> s[p] \in Terminal
         [] rule = "SIX_DOTS" -> \A k \in 0..5 : s[p + k] = DOT
         [] rule = "ELLIPSIS2" -> s[p] = ELLIPSIS /\ s[p + 1] = ELLIPSIS
         [] rule = "TERMINAL_QUOTE" ->
              s[p] \in Terminal /\ s[p + 1] \in ClosingQuote

\* does the break rule match s at position p (1-based); a match is group 1
\* followed by the one character of group 2
BreakMatches(rule, s, p) ==
    /\ p + Group1Len(rule) <= Len(s)
    /\ CASE rule = "TERMINAL" ->
              /\ s[p] \in Terminal
              /\ s[p + 1] \notin ClosingQuote
         [] rule = "SIX_DOTS" ->
              /\ \A k \in 0..5 : s[p + k] = DOT
              /\ s[p + 6] \notin ClosingQuote
         [] rule = "ELLIPSIS2" ->
              /\ s[p] = ELLIPSIS /\ s[p + 1] = ELLIPSIS
              /\ s[p + 2] \notin ClosingQuote
         [] rule = "TERMINAL_QUOTE" ->
              /\ s[p] \in Terminal
              /\ s[p + 1] \in ClosingQuote
              /\ s[p + 2] \notin ({CJKCOMMA} \cup Terminal)

RECURSIVE BreakEndsWholeMatch(_, _, _)
\* BreakEnds recording m.end() instead of m.end(1)
BreakEndsWholeMatch(rule, s, p) ==
    IF p > Len(s) THEN <<>>
    ELSE IF BreakMatches(rule, s, p)
         THEN <<p + Group1Len(rule)>>
                  \o BreakEndsWholeMatch(rule, s, p + Group1Len(rule) + 1)
         ELSE BreakEndsWholeMatch(rule, s, p + 1)

RECURSIVE BreakEnds(_, _, _)
\* regex.finditer(text): m.end(1) of the non-overlapping matches found from
\* position p on, left to right
BreakEnds(rule, s, p) ==
    IF p > Len(s) THEN <<>>
    ELSE IF BreakMatches(rule, s, p)
         THEN <<p - 1 + Group1Len(rule)>>
                  \o BreakEnds(rule, s, p + Group1Len(rule) + 1)
         ELSE BreakEnds(rule, s, p + 1)

RECURSIVE SubBreakOverlapping(_, _, _)
\* SubBreak going on at the character of group 2 instead of after it
SubBreakOverlapping(rule, s, p) ==
    IF p > Len(s) THEN <<>>
    ELSE IF BreakMatches(rule, [k \in DOMAIN s |-> s[k].c], p)
         THEN SubSeq(s, p, p + Group1Len(rule) - 1)
                  \o <<[c |-> NL, ins |-> TRUE]>>
                  \o SubBreakOverlapping(rule, s, p + Group1Len(rule))
         ELSE <<s[p]>> \o SubBreakOverlapping(rule, s, p + 1)

RECURSIVE SubBreak(_, _, _)
\* re.sub(rule, r"\1\n\2", s) from position p on.  A text being rewritten is
\* a sequence of records [c: character, ins: inserted by a break rule]; the
\* rules read c only, ins records which line breaks the rules inserted.
SubBreak(rule, s, p) ==
    IF p > Len(s) THEN <<>>
    ELSE IF BreakMatches(rule, [k \in DOMAIN s |-> s[k].c], p)
         THEN SubSeq(s, p, p + Group1Len(rule) - 1)
                  \o <<[c |-> NL, ins |-> TRUE]>>
                  \o <<s[p + Group1Len(rule)]>>
                  \o SubBreak(rule, s, p + Group1Len(rule) + 1)
         ELSE <<s[p]>> \o SubBreak(rule, s, p + 1)

\* the four substitutions of split_sentence, each on the result of the last
Normalize(text) ==
    LET t0 == [k \in DOMAIN text |-> [c |-> text[k], ins |-> FALSE]]
        t1 == SubBreak("TERMINAL", t0, 1)
        t2 == SubBreak("SIX_DOTS", t1, 1)
        t3 == SubBreak("ELLIPSIS2", t2, 1)
    IN  SubBreak("TERMINAL_QUOTE", t3, 1)

\* the characters of a rewritten text
Chars(m) == [k \in DOMAIN m |-> m[k].c]

\* the offsets of the original text at which a line break was inserted
InsertedAt(m) ==
    {Cardinality({j \in 1..k : ~m[j].ins}) : k \in {k \in DOMAIN m : m[k].ins}}

\* ------------------------------------------------------------------------
\* The abbreviation patterns
\* ------------------------------------------------------------------------
\* the class of the character between group 1 and group 2
GapOf(regex) ==
    IF regex \in {"AB_SENIOR", "AB_ACRONYM"} THEN Whitespace ELSE {SEPARATOR}

\* length of the match of an abbreviation pattern at position p of s, 0 if
\* it does not match there
AbbrevMatchLen(regex, s, p) ==
    LET at(k) == IF p + k <= Len(s) THEN s[p + k] ELSE ""
    IN  IF regex \in {"AB_SENIOR", "UNDO_AB_SENIOR"}
        THEN \* ([A-Z][a-z]{1,2}\.) gap (\w)
             IF at(0) \in Upper /\ at(1) \in Lower
             THEN IF /\ at(2) \in Lower /\ at(3) = DOT
                     /\ at(4) \in GapOf(regex) /\ at(5) \in WordChar
                  THEN 6
                  ELSE IF /\ at(2) = DOT
                          /\ at(3) \in GapOf(regex) /\ at(4) \in WordChar
                       THEN 5 ELSE 0
             ELSE 0
        ELSE \* (\.[a-zA-Z]\.) gap (\w)
             IF /\ at(0) = DOT /\ at(1) \in Letter /\ at(2) = DOT
                /\ at(3) \in GapOf(regex) /\ at(4) \in WordChar
             THEN 5 ELSE 0

RECURSIVE SubAbbrevInserting(_, _, _, _)
\* SubAbbrev putting the separator before the gap character, not in its place
SubAbbrevInserting(regex, separator, s, p) ==
    IF p > Len(s) THEN <<>>
    ELSE LET n == AbbrevMatchLen(regex, s, p)
         IN  IF n > 0
             THEN SubSeq(s, p, p + n - 3) \o <<separator, s[p + n - 2], s[p + n - 1]>>
                      \o SubAbbrevInserting(regex, separator, s, p + n)
             ELSE <<s[p]>> \o SubAbbrevInserting(regex, separator, s, p + 1)

RECURSIVE SubAbbrev(_, _, _, _)
\* regex.sub(r"\1" + separator + r"\2", s) from position p on
SubAbbrev(regex, separator, s, p) ==
    IF p > Len(s) THEN <<>>
    ELSE LET n == AbbrevMatchLen(regex, s, p)
         IN  IF n > 0
             THEN SubSeq(s, p, p + n - 3) \o <<separator, s[p + n - 1]>>
                      \o SubAbbrev(regex, separator, s, p + n)
             ELSE <<s[p]>> \o SubAbbrev(regex, separator, s, p + 1)

RECURSIVE replace_with_separator(_, _, _)
\* _replace_with_separator(text, separator, regexs)
replace_with_separator(text, separator, regexs) ==
    IF regexs = <<>> THEN text
    ELSE replace_with_separator(SubAbbrev(Head(regexs), separator, text, 1),
                                separator, Tail(regexs))

\* ------------------------------------------------------------------------
\* _RE_SENTENCE = (\S.+?[.!?])(?=\s+|$)|(\S.+?)(?=[\n]|$)
\* ------------------------------------------------------------------------
\* the ends e (exclusive, 0-based, so the match is s[p-1:e]) at which the
\* first alternative can stop when started at position p (1-based)
Alt1Ends(s, p) ==
    {e \in (p + 2)..Len(s) :
        /\ \A k \in (p + 1)..(e - 1) : s[k] # NL
        /\ s[e] \in SentenceEnd
        /\ (e = Len(s) \/ s[e + 1] \in Whitespace)}

\* the same for the second alternative
Alt2Ends(s, p) ==
    {e \in (p + 1)..Len(s) :
        /\ \A k \in (p + 1)..e : s[k] # NL
        /\ (e = Len(s) \/ s[e + 1] = NL)}

Min(S) == CHOOSE x \in S : \A y \in S : x <= y

\* end of the match of _RE_SENTENCE at position p, 0 if there is none: the
\* alternatives are tried in order and .+? takes the shortest run
SentenceMatchEnd(s, p) ==
    IF p > Len(s) \/ s[p] \in Whitespace THEN 0
    ELSE IF Alt1Ends(s, p) # {} THEN Min(Alt1Ends(s, p))
    ELSE IF Alt2Ends(s, p) # {} THEN Min(Alt2Ends(s, p))
    ELSE 0

RECURSIVE SentenceSpans(_, _)
\* _RE_SENTENCE.finditer(s): the matches as <<start, end>> (Python offsets),
\* scanning from position p
SentenceSpans(s, p) ==
    IF p > Len(s) THEN <<>>
    ELSE LET e == SentenceMatchEnd(s, p)
         IN  IF e > 0 THEN <<(<<p - 1, e>>)>> \o SentenceSpans(s, e + 1)
             ELSE SentenceSpans(s, p + 1)

\* ------------------------------------------------------------------------
\* Helpers of the two generators
\* ------------------------------------------------------------------------
\* Guard with the acronym pattern left out
GuardTitlesOnly(chunk) ==
    replace_with_separator(chunk, SEPARATOR, <<"AB_SENIOR">>)

\* the guard as the generators call it (lines 129-131 and 196)
Guard(chunk) ==
    replace_with_separator(chunk, SEPARATOR, <<"AB_SENIOR", "AB_ACRONYM">>)

\* Restore with the acronym pattern left out
RestoreTitlesOnly(sentence) ==
    replace_with_separator(sentence, SP, <<"UNDO_AB_SENIOR">>)

\* the restorer as the generators call it (lines 137-139 and 209)
Restore(sentence) ==
    replace_with_separator(sentence, SP, <<"UNDO_AB_SENIOR", "UNDO_AB_ACRONYM">>)

RECURSIVE SortedSeq(_)
\* sorted(S) for a set of integers
SortedSeq(S) ==
    IF S = {} THEN <<>> ELSE <<Min(S)>> \o SortedSeq(S \ {Min(S)})

Range(f) == {f[x] : x \in DOMAIN f}

\* FindSplitPoints with the two ends of the text as break points too
FindSplitPointsWithEnds(t) ==
    SortedSeq({0, Len(t)} \cup
              UNION {Range(BreakEnds(BreakRules[r], t, 1)) : r \in DOMAIN BreakRules})

\* split_points of split_sentence_with_index: every rule on the unmodified
\* text, then sorted(set(...))
FindSplitPoints(t) ==
    SortedSeq(UNION {Range(BreakEnds(BreakRules[r], t, 1)) : r \in DOMAIN BreakRules})

\* SegmentOf without "prev +" in the base index
SegmentOfRelative(t, from, to) ==
    LET chunk     == Slice(t, from, to)
        lstripped == LStrip(chunk)
    IN  IF lstripped # <<>>
        THEN <<[chunk_text |-> lstripped,
                base_index |-> Len(chunk) - Len(lstripped)]>>
        ELSE <<>>

\* SegmentOf without "if lstripped"
SegmentOfUnchecked(t, from, to) ==
    LET chunk     == Slice(t, from, to)
        lstripped == LStrip(chunk)
    IN  <<[chunk_text |-> lstripped,
           base_index |-> from + (Len(chunk) - Len(lstripped))]>>

\* SegmentOf without the shift of the base index by the trimmed whitespace
SegmentOfUntrimmedBase(t, from, to) ==
    LET chunk     == Slice(t, from, to)
        lstripped == LStrip(chunk)
    IN  IF lstripped # <<>>
        THEN <<[chunk_text |-> lstripped, base_index |-> from]>>
        ELSE <<>>

\* one entry of segments for text[from:to], none if it is all whitespace
SegmentOf(t, from, to) ==
    LET chunk     == Slice(t, from, to)
        lstripped == LStrip(chunk)
    IN  IF lstripped # <<>>
        THEN <<[chunk_text |-> lstripped,
                base_index |-> from + (Len(chunk) - Len(lstripped))]>>
        ELSE <<>>

\* SentenceIndex without "+ start_in_chunk"
SentenceIndexOfChunk(base_index, start_in_chunk) == base_index

\* base_index + start_in_chunk, the offset yielded with a sentence
SentenceIndex(base_index, start_in_chunk) == base_index + start_in_chunk

RECURSIVE Accepted(_, _)
\* the break points the segments loop accepts: "if sp <= prev: continue"
Accepted(sps, prev) ==
    IF sps = <<>> THEN <<>>
    ELSE IF Head(sps) <= prev THEN Accepted(Tail(sps), prev)
    ELSE <<Head(sps)>> \o Accepted(Tail(sps), Head(sps))

RECURSIVE BuildSegments(_, _, _)
\* the segments loop of split_sentence_with_index and the tail segment
BuildSegments(t, sps, prev) ==
    IF sps = <<>>
    THEN IF prev < Len(t) THEN SegmentOf(t, prev, Len(t)) ELSE <<>>
    ELSE IF Head(sps) <= prev THEN BuildSegments(t, Tail(sps), prev)
    ELSE SegmentOf(t, prev, Head(sps)) \o BuildSegments(t, Tail(sps), Head(sps))

\* ------------------------------------------------------------------------
\* Inputs
\* ------------------------------------------------------------------------
\* texts are all strings of up to MaxLen characters of Alphabet, and all
\* phrases of up to Max...Words words of three small vocabularies
MaxLen == 3
MaxAbbrevWords == 4
MaxTitleWords == 5
MaxBreakWords == 4

Alphabet ==
    {"a", DOT, SP, TAB, NL, QMARK, CJKSTOP, RDQUOTE, CJKCOMMA, SEPARATOR}

\* a title, the end of an acronym, gaps, a word character, the placeholder
AbbrevWords ==
    {<<"A", "a", DOT>>, <<DOT, "a", DOT>>, <<SP>>, <<TAB>>, <<NL>>, <<"a">>,
     <<SEPARATOR>>}

\* a title, a space, a word character, the placeholder
TitleWords == {<<"A", "a", DOT>>, <<SP>>, <<"a">>, <<SEPARATOR>>}

\* the runs of the break rules and what may follow them
BreakWords ==
    {<<DOT, DOT, DOT, DOT, DOT, DOT>>, <<ELLIPSIS, ELLIPSIS>>, <<DOT>>,
     <<ELLIPSIS>>, <<QMARK>>, <<RDQUOTE>>, <<CJKCOMMA>>, <<"a">>}

\* all texts of at most n characters of A
TextsOver(A, n) == UNION {[1..m -> A] : m \in 0..n}

RECURSIVE Flatten(_)
Flatten(ws) == IF ws = <<>> THEN <<>> ELSE Head(ws) \o Flatten(Tail(ws))

\* all texts made of at most n words of W
PhrasesOver(W, n) == {Flatten(ws) : ws \in TextsOver(W, n)}

Texts ==
    TextsOver(Alphabet, MaxLen)
        \cup PhrasesOver(AbbrevWords, MaxAbbrevWords)
        \cup PhrasesOver(TitleWords, MaxTitleWords)
        \cup PhrasesOver(BreakWords, MaxBreakWords)

\* ------------------------------------------------------------------------
\* State: a caller runs list(split_sentence(text, best)) and then
\* list(split_sentence_with_index(text, best)) on the same text
\* ------------------------------------------------------------------------
VARIABLES
    arg,           \* what kind of object the argument is
    raised,        \* the exceptions the caller has seen, as [fn, at]
    text,          \* the argument when it is a string
    best,          \* the mode flag
    pc,            \* where the caller / the running generator is
    norm,          \* split_sentence: text after the four substitutions
    chunks,        \* split_sentence: text.split("\n")
    ci,            \* split_sentence: position of the chunk loop (1-based)
    split_points,  \* split_sentence_with_index: sorted break points
    segments,      \* split_sentence_with_index: (chunk_text, base_index)
    si,            \* split_sentence_with_index: position of the segment loop
    processed,     \* guarded text of the current chunk
    sents,         \* matches of _RE_SENTENCE in processed, as spans
    k,             \* position of the sentence loop
    out,           \* sentences split_sentence has yielded
    outIdx         \* pairs split_sentence_with_index has yielded

\* A yield is recorded as [sent, chunk, start] (outIdx: and index): the text
\* yielded, the position in chunks / segments of the chunk it was cut from
\* and the offset in that chunk where it starts; index is the offset yielded.

\* State of src/src/analysis/analysis.py and of should_split
VARIABLES
    texts,             \* _analysis_batch: the argument
    long_texts,        \* _analysis_batch: texts for the paragraph pipeline
    short_texts,       \* _analysis_batch: texts for the sentence pipeline
    li,                \* _analysis_batch: position of the long_texts loop
    analysis_results,  \* _analysis_batch: the dict from text to result
    calls,             \* the calls the two pipelines have received
    ret,               \* _analysis_batch: the list returned
    terms,             \* _filter_terms: the argument
    allow_pos_ctb,     \* _filter_terms: the argument
    allow_pos_pku,     \* _filter_terms: the argument
    res,               \* _filter_terms: the local res, returned at the end
    answers            \* should_split / _should_use_paragraph_pipeline results

\* State of a paragraph pipeline of src/src/analysis/analysis.py
VARIABLES
    token_fn,          \* the tokenizer of the pipeline: fine or coarse
    doc,               \* the pipeline's document: output key -> value
    response           \* the AnalysisResponse built by _process_paragraph

splitVars == <<arg, raised, text, best, norm, chunks, ci, split_points,
               segments, si, processed, sents, k, out, outIdx>>

batchVars == <<texts, long_texts, short_texts, li, analysis_results, calls,
               ret>>

filterVars == <<terms, allow_pos_ctb, allow_pos_pku, res>>

paragraphVars == <<token_fn, doc, response>>

analysisVars == <<batchVars, filterVars, answers, paragraphVars>>

vars == <<pc, splitVars, analysisVars>>

\* the objects that are not strings: None, 0, 5, [], ["a"], {}, {"a": 1}
NonStrings ==
    {"None", "int_0", "int", "list_empty", "list", "dict_empty", "dict"}

\* bool(x) is False for these
Falsy == {"None", "int_0", "list_empty", "dict_empty"}

\* an Optional[Set[str]] argument left out
None == [is_none |-> TRUE, tags |-> {}]

\* _analysis_batch has not run
BatchIdle ==
    /\ texts = <<>>
    /\ long_texts = <<>>
    /\ short_texts = <<>>
    /\ li = 1
    /\ analysis_results = <<>>
    /\ calls = <<>>
    /\ ret = <<>>

\* _filter_terms has not run
FilterIdle ==
    /\ terms = <<>>
    /\ allow_pos_ctb = None
    /\ allow_pos_pku = None
    /\ res = <<>>

\* no paragraph pipeline has run
ParagraphIdle ==
    /\ token_fn = "fine"
    /\ doc = <<>>
    /\ response = <<>>

\* nothing of analysis.py has run, should_split has not been asked
AnalysisIdle ==
    /\ BatchIdle
    /\ FilterIdle
    /\ ParagraphIdle
    /\ answers = {}

\* neither generator has run
SplitIdle ==
    /\ raised = {}
    /\ norm = <<>>
    /\ chunks = <<>>
    /\ ci = 1
    /\ split_points = <<>>
    /\ segments = <<>>
    /\ si = 1
    /\ processed = <<>>
    /\ sents = <<>>
    /\ k = 1
    /\ out = <<>>
    /\ outIdx = <<>>

InitWith(T) ==
    /\ \/ arg = "str" /\ text \in T
       \/ arg \in NonStrings /\ text = <<>>
    /\ best \in BOOLEAN
    /\ pc = "ss_call"
    /\ SplitIdle
    /\ AnalysisIdle

Init == InitWith(Texts)

\* ---- split_sentence ----------------------------------------------------
\* the call: split_sentence is a generator function, the call returns a
\* generator and runs nothing of the body
SSCall ==
    /\ pc = "ss_call"
    /\ pc' = "ss_new"
    /\ UNCHANGED <<splitVars, analysisVars>>

\* first resumption: the four re.sub and text.split("\n")
SSStart ==
    /\ pc = "ss_new"
    /\ arg = "str"
    /\ LET normalized == Normalize(text)
       IN  /\ norm' = normalized
           /\ chunks' = SplitLines(Chars(normalized))
    /\ ci' = 1
    /\ pc' = "ss_loop"
    /\ UNCHANGED analysisVars
    /\ UNCHANGED <<arg, raised, text, best, split_points, segments, si,
                   processed, sents, k, out, outIdx>>

\* first resumption on an object that is not a string: re.sub raises
\* TypeError, the caller goes on to split_sentence_with_index
SSRaise ==
    /\ pc = "ss_new"
    /\ arg # "str"
    /\ raised' = raised \cup {[fn |-> "split_sentence", at |-> "next"]}
    /\ pc' = "wi_call"
    /\ UNCHANGED analysisVars
    /\ UNCHANGED <<arg, text, best, norm, chunks, ci, split_points, segments,
                   si, processed, sents, k, out, outIdx>>

\* chunk.strip() is empty: continue
SSSkipEmpty ==
    /\ pc = "ss_loop" /\ ci <= Len(chunks)
    /\ Strip(chunks[ci]) = <<>>
    /\ ci' = ci + 1
    /\ UNCHANGED analysisVars
    /\ UNCHANGED <<arg, raised, text, best, pc, norm, chunks, split_points, segments, si,
                   processed, sents, k, out, outIdx>>

\* yield chunk: not best, or no match of _RE_SENTENCE
SSYieldChunk ==
    /\ pc = "ss_loop" /\ ci <= Len(chunks)
    /\ LET chunk == Strip(chunks[ci])
       IN  /\ chunk # <<>>
           /\ ~best \/ SentenceSpans(Guard(chunk), 1) = <<>>
           /\ out' = Append(out, [sent |-> chunk, chunk |-> ci, start |-> 0])
    /\ ci' = ci + 1
    /\ UNCHANGED analysisVars
    /\ UNCHANGED <<arg, raised, text, best, pc, norm, chunks, split_points, segments, si,
                   processed, sents, k, outIdx>>

\* best mode: guard the chunk and list the matches
SSMatch ==
    /\ pc = "ss_loop" /\ ci <= Len(chunks)
    /\ best
    /\ LET chunk   == Strip(chunks[ci])
           guarded == Guard(chunk)
           matches == SentenceSpans(guarded, 1)
       IN  /\ chunk # <<>>
           /\ matches # <<>>
           /\ processed' = guarded
           /\ sents' = matches
    /\ k' = 1
    /\ pc' = "ss_sents"
    /\ UNCHANGED analysisVars
    /\ UNCHANGED <<arg, raised, text, best, norm, chunks, ci, split_points, segments, si,
                   out, outIdx>>

\* yield the restored text of the next match; after the last one the chunk
\* loop goes on
SSYieldSentence ==
    /\ pc = "ss_sents" /\ k <= Len(sents)
    /\ out' = Append(out,
                [sent  |-> Restore(Slice(processed, sents[k][1], sents[k][2])),
                 chunk |-> ci, start |-> sents[k][1]])
    /\ k' = k + 1
    /\ IF k = Len(sents)
       THEN pc' = "ss_loop" /\ ci' = ci + 1
       ELSE pc' = pc /\ ci' = ci
    /\ UNCHANGED analysisVars
    /\ UNCHANGED <<arg, raised, text, best, norm, chunks, split_points, segments, si,
                   processed, sents, outIdx>>

\* the chunk loop is over: the generator is exhausted, the caller goes on to
\* split_sentence_with_index
SSReturn ==
    /\ pc = "ss_loop" /\ ci > Len(chunks)
    /\ pc' = "wi_call"
    /\ UNCHANGED analysisVars
    /\ UNCHANGED <<arg, raised, text, best, norm, chunks, ci, split_points, segments, si,
                   processed, sents, k, out, outIdx>>

\* ---- split_sentence_with_index -----------------------------------------
\* the call returns a generator and runs nothing of the body
WICall ==
    /\ pc = "wi_call"
    /\ pc' = "wi_new"
    /\ UNCHANGED <<splitVars, analysisVars>>

\* first resumption, if not text: return
WIReturnEmpty ==
    /\ pc = "wi_new"
    /\ IF arg = "str" THEN text = <<>> ELSE arg \in Falsy
    /\ pc' = "done"
    /\ UNCHANGED <<splitVars, analysisVars>>

\* first resumption on an object that is not a string and not falsy:
\* finditer raises TypeError
WIRaise ==
    /\ pc = "wi_new"
    /\ arg # "str" /\ arg \notin Falsy
    /\ raised' = raised \cup {[fn |-> "split_sentence_with_index", at |-> "next"]}
    /\ pc' = "done"
    /\ UNCHANGED analysisVars
    /\ UNCHANGED <<arg, text, best, norm, chunks, ci, split_points, segments,
                   si, processed, sents, k, out, outIdx>>

\* first resumption: break points and segments; no segments: return
WIStart ==
    /\ pc = "wi_new"
    /\ arg = "str" /\ text # <<>>
    /\ LET points == FindSplitPoints(text)
           segs   == BuildSegments(text, points, 0)
       IN  /\ split_points' = points
           /\ segments' = segs
           /\ pc' = IF segs = <<>> THEN "done" ELSE "wi_loop"
    /\ si' = 1
    /\ UNCHANGED analysisVars
    /\ UNCHANGED <<arg, raised, text, best, norm, chunks, ci, processed, sents,
                   k, out, outIdx>>

\* yield (chunk_text, base_index): not best, or no match of _RE_SENTENCE
WIYieldChunk ==
    /\ pc = "wi_loop" /\ si <= Len(segments)
    /\ ~best \/ SentenceSpans(Guard(segments[si].chunk_text), 1) = <<>>
    /\ outIdx' = Append(outIdx, [sent  |-> segments[si].chunk_text,
                                 index |-> segments[si].base_index,
                                 chunk |-> si, start |-> 0])
    /\ si' = si + 1
    /\ UNCHANGED analysisVars
    /\ UNCHANGED <<arg, raised, text, best, pc, norm, chunks, ci, split_points, segments,
                   processed, sents, k, out>>

\* best mode: guard the chunk and list the matches
WIMatch ==
    /\ pc = "wi_loop" /\ si <= Len(segments)
    /\ best
    /\ LET guarded == Guard(segments[si].chunk_text)
           matches == SentenceSpans(guarded, 1)
       IN  /\ matches # <<>>
           /\ processed' = guarded
           /\ sents' = matches
    /\ k' = 1
    /\ pc' = "wi_sents"
    /\ UNCHANGED analysisVars
    /\ UNCHANGED <<arg, raised, text, best, norm, chunks, ci, split_points, segments, si,
                   out, outIdx>>

\* yield (sent_text, base_index + start_in_chunk) for the next match
WIYieldSentence ==
    /\ pc = "wi_sents" /\ k <= Len(sents)
    /\ outIdx' = Append(outIdx,
                [sent  |-> Restore(Slice(processed, sents[k][1], sents[k][2])),
                 index |-> SentenceIndex(segments[si].base_index, sents[k][1]),
                 chunk |-> si, start |-> sents[k][1]])
    /\ k' = k + 1
    /\ IF k = Len(sents)
       THEN pc' = "wi_loop" /\ si' = si + 1
       ELSE pc' = pc /\ si' = si
    /\ UNCHANGED analysisVars
    /\ UNCHANGED <<arg, raised, text, best, norm, chunks, ci, split_points, segments,
                   processed, sents, out>>

\* the segment loop is over
WIReturn ==
    /\ pc = "wi_loop" /\ si > Len(segments)
    /\ pc' = "done"
    /\ UNCHANGED analysisVars
    /\ UNCHANGED <<arg, raised, text, best, norm, chunks, ci, split_points, segments, si,
                   processed, sents, k, out, outIdx>>

Next ==
    \/ SSCall
    \/ SSStart
    \/ SSRaise
    \/ SSSkipEmpty
    \/ SSYieldChunk
    \/ SSMatch
    \/ SSYieldSentence
    \/ SSReturn
    \/ WICall
    \/ WIReturnEmpty
    \/ WIRaise
    \/ WIStart
    \/ WIYieldChunk
    \/ WIMatch
    \/ WIYieldSentence
    \/ WIReturn

Spec == Init /\ [][Next]_vars

\* ------------------------------------------------------------------------
\* The length threshold: should_split (split_sentence.py) and
\* _should_use_paragraph_pipeline (analysis.py), asked about one text
\* ------------------------------------------------------------------------
__TEXT_LENGTH_THRESHOLD == 120

TEXT_LENGTH_THRESHOLD == 120

\* should_split with >= for >
should_split_from_threshold(t) == Len(t) >= __TEXT_LENGTH_THRESHOLD

\* len(text) > __TEXT_LENGTH_THRESHOLD; len counts characters
should_split(t) == Len(t) > __TEXT_LENGTH_THRESHOLD

\* len(text) > TEXT_LENGTH_THRESHOLD
_should_use_paragraph_pipeline(t) == Len(t) > TEXT_LENGTH_THRESHOLD

\* the texts asked about: up to MaxTextLength times "a", or the CJK
\* character of the tests
MaxTextLength == 122

CJKCHAR == "u5B57"

Repeat(c, n) == [i \in 1..n |-> c]

LengthTexts == {Repeat(c, n) : c \in {"a", CJKCHAR}, n \in 0..MaxTextLength}

LengthInit ==
    /\ pc = "len_call"
    /\ arg = "str"
    /\ text \in LengthTexts
    /\ best = FALSE
    /\ SplitIdle
    /\ AnalysisIdle

ShouldSplit ==
    /\ pc = "len_call"
    /\ answers' = answers \cup {<<"should_split", should_split(text)>>}
    /\ pc' = "len_paragraph"
    /\ UNCHANGED <<splitVars, paragraphVars, batchVars, filterVars>>

ShouldUseParagraphPipeline ==
    /\ pc = "len_paragraph"
    /\ answers' = answers \cup {<<"_should_use_paragraph_pipeline",
                                  _should_use_paragraph_pipeline(text)>>}
    /\ pc' = "len_done"
    /\ UNCHANGED <<splitVars, paragraphVars, batchVars, filterVars>>

LengthNext ==
    \/ ShouldSplit
    \/ ShouldUseParagraphPipeline

LengthSpec == LengthInit /\ [][LengthNext]_vars

\* ------------------------------------------------------------------------
\* _filter_terms(terms, allow_pos_ctb, allow_pos_pku)
\* ------------------------------------------------------------------------
\* a Term is [token, pos_ctb, pos_pku]; two tags of each tag set
MaxTerms == 2

CtbTags == {"NN", "VV"}

PkuTags == {"n", "v"}

Terms == [token : {"t"}, pos_ctb : CtbTags, pos_pku : PkuTags]

\* an Optional[Set[str]]: None or a set of tags, empty or not
AllowSets(Tags) == {None} \cup {[is_none |-> FALSE, tags |-> S] : S \in SUBSET Tags}

\* bool(allow): neither None nor the empty set
Truthy(allow) == ~allow.is_none /\ allow.tags # {}

FilterInit ==
    /\ pc = "filter_call"
    /\ terms \in TextsOver(Terms, MaxTerms)
    /\ allow_pos_ctb \in AllowSets(CtbTags)
    /\ allow_pos_pku \in AllowSets(PkuTags)
    /\ res = <<>>
    /\ arg = "str" /\ text = <<>> /\ best = FALSE
    /\ SplitIdle
    /\ BatchIdle
    /\ ParagraphIdle
    /\ answers = {}

\* res = terms
FilterStart ==
    /\ pc = "filter_call"
    /\ res' = terms
    /\ pc' = "filter_ctb"
    /\ UNCHANGED <<splitVars, paragraphVars, batchVars, answers, terms, allow_pos_ctb,
                   allow_pos_pku>>

\* if allow_pos_ctb: res = [term for term in terms if term.pos_ctb in ...]
FilterCtb ==
    /\ pc = "filter_ctb"
    /\ res' = IF Truthy(allow_pos_ctb)
              THEN SelectSeq(terms, LAMBDA term : term.pos_ctb \in allow_pos_ctb.tags)
              ELSE res
    /\ pc' = "filter_pku"
    /\ UNCHANGED <<splitVars, paragraphVars, batchVars, answers, terms, allow_pos_ctb,
                   allow_pos_pku>>

\* if allow_pos_pku: res = [term for term in terms if term.pos_pku in ...];
\* return res
FilterPku ==
    /\ pc = "filter_pku"
    /\ res' = IF Truthy(allow_pos_pku)
              THEN SelectSeq(terms, LAMBDA term : term.pos_pku \in allow_pos_pku.tags)
              ELSE res
    /\ pc' = "filter_done"
    /\ UNCHANGED <<splitVars, paragraphVars, batchVars, answers, terms, allow_pos_ctb,
                   allow_pos_pku>>

FilterNext ==
    \/ FilterStart
    \/ FilterCtb
    \/ FilterPku

FilterSpec == FilterInit /\ [][FilterNext]_vars

\* ------------------------------------------------------------------------
\* _analysis_batch(texts, paragraph_pipeline, sentence_pipeline)
\* ------------------------------------------------------------------------
\* The two pipelines are arguments; each stands for a function of the text
\* it is given.  Their output for a text is written as the pipeline's name
\* with the text; the sentence pipeline takes a list and answers per text.
paragraph_pipeline(t) == [pipeline |-> "paragraph", input |-> t]

sentence_pipeline(ts) ==
    [n \in DOMAIN ts |-> [pipeline |-> "sentence", input |-> ts[n]]]

\* the AnalysisResponse built from the pipeline output for one text
_process_paragraph(docs) == [terms |-> <<docs>>, named_entities |-> <<docs>>]

\* one AnalysisResponse per text of the batch
_process_sentences(docs) == [n \in DOMAIN docs |-> _process_paragraph(docs[n])]

empty_result == [terms |-> <<>>, named_entities |-> <<>>]

\* [text for text in texts if len(text.strip()) and _should_use...(text)]
LongTexts(ts) ==
    SelectSeq(ts, LAMBDA t : Len(Strip(t)) > 0 /\ _should_use_paragraph_pipeline(t))

\* ShortTexts without "len(text.strip()) and"
ShortTextsUnstripped(ts) ==
    SelectSeq(ts, LAMBDA t : ~_should_use_paragraph_pipeline(t))

\* [text for text in texts if len(text.strip()) and not _should_use...(text)]
ShortTexts(ts) ==
    SelectSeq(ts, LAMBDA t : Len(Strip(t)) > 0 /\ ~_should_use_paragraph_pipeline(t))

RECURSIVE StoreAll(_, _, _)
\* for text, result in zip(ts, rs): d[text] = result
StoreAll(d, ts, rs) ==
    IF ts = <<>> \/ rs = <<>> THEN d
    ELSE StoreAll((Head(ts) :> Head(rs)) @@ d, Tail(ts), Tail(rs))

\* the texts of a batch: empty, blank, short, at the threshold, over it,
\* blank and over it, CJK and over it
MaxTexts == 3

BatchTexts ==
    {<<>>, <<SP>>, <<"a">>,
     Repeat("a", TEXT_LENGTH_THRESHOLD), Repeat("a", TEXT_LENGTH_THRESHOLD + 1),
     Repeat(SP, TEXT_LENGTH_THRESHOLD + 1),
     Repeat(CJKCHAR, TEXT_LENGTH_THRESHOLD + 1)}

BatchInit ==
    /\ pc = "batch_call"
    /\ texts \in TextsOver(BatchTexts, MaxTexts)
    /\ long_texts = <<>>
    /\ short_texts = <<>>
    /\ li = 1
    /\ analysis_results = <<>>
    /\ calls = <<>>
    /\ ret = <<>>
    /\ arg = "str" /\ text = <<>> /\ best = FALSE
    /\ SplitIdle
    /\ FilterIdle
    /\ ParagraphIdle
    /\ answers = {}

\* long_texts, short_texts, analysis_results = {}
BatchStart ==
    /\ pc = "batch_call"
    /\ long_texts' = LongTexts(texts)
    /\ short_texts' = ShortTexts(texts)
    /\ analysis_results' = <<>>
    /\ li' = 1
    /\ pc' = "batch_long"
    /\ UNCHANGED <<splitVars, paragraphVars, filterVars, answers, texts, calls, ret>>

\* one round of "for text in long_texts"
BatchLong ==
    /\ pc = "batch_long" /\ li <= Len(long_texts)
    /\ LET t == long_texts[li]
       IN  /\ calls' = Append(calls, [pipeline |-> "paragraph", input |-> t])
           /\ analysis_results' =
                  (t :> _process_paragraph(paragraph_pipeline(t)))
                      @@ analysis_results
    /\ li' = li + 1
    /\ UNCHANGED <<splitVars, paragraphVars, filterVars, answers, texts, long_texts,
                   short_texts, ret, pc>>

\* if short_texts: one call of the sentence pipeline, results stored by text
BatchShort ==
    /\ pc = "batch_long" /\ li > Len(long_texts)
    /\ IF short_texts # <<>>
       THEN /\ calls' = Append(calls, [pipeline |-> "sentence",
                                       input |-> short_texts])
            /\ analysis_results' =
                   StoreAll(analysis_results, short_texts,
                            _process_sentences(sentence_pipeline(short_texts)))
       ELSE UNCHANGED <<calls, analysis_results>>
    /\ pc' = "batch_return"
    /\ UNCHANGED <<splitVars, paragraphVars, filterVars, answers, texts, long_texts,
                   short_texts, li, ret>>

\* return [analysis_results.get(text, empty_result) for text in texts]
BatchReturn ==
    /\ pc = "batch_return"
    /\ ret' = [n \in DOMAIN texts |->
                 IF texts[n] \in DOMAIN analysis_results
                 THEN analysis_results[texts[n]]
                 ELSE empty_result]
    /\ pc' = "batch_done"
    /\ UNCHANGED <<splitVars, paragraphVars, filterVars, answers, texts, long_texts,
                   short_texts, li, analysis_results, calls>>

BatchNext ==
    \/ BatchStart
    \/ BatchLong
    \/ BatchShort
    \/ BatchReturn

BatchSpec == BatchInit /\ [][BatchNext]_vars

\* ------------------------------------------------------------------------
\* The paragraph pipelines (analysis.py lines 171-180 and 202-211) and
\* _process_paragraph
\* ------------------------------------------------------------------------
\* The tokenizers, the taggers and the named-entity recognizer are loaded
\* models.  Each is given here as a small function with the output format
\* the code relies on: a tokenizer returns per sentence the triples
\* (token, start, end) with character offsets in the sentence and leaves
\* whitespace out (lines 59-65), the recognizer returns per sentence the
\* tuples (entity, type, begin, end) (lines 226-228).

\* the fine tokenizer: every non-whitespace character is a token
__tok_fine(sent) ==
    LET at == SelectSeq([j \in 1..Len(sent) |-> j],
                        LAMBDA j : sent[j] \notin Whitespace)
    IN  [n \in DOMAIN at |-> <<<<sent[at[n]]>>, at[n] - 1, at[n]>>]

\* the coarse tokenizer: every maximal run of non-whitespace characters
__tok_coarse(sent) ==
    LET first(j) == sent[j] \notin Whitespace
                        /\ (j = 1 \/ sent[j - 1] \in Whitespace)
        last(j)  == CHOOSE e \in j..Len(sent) :
                        /\ \A q \in j..e : sent[q] \notin Whitespace
                        /\ e = Len(sent) \/ sent[e + 1] \in Whitespace
        at == SelectSeq([j \in 1..Len(sent) |-> j], first)
    IN  [n \in DOMAIN at |->
            <<SubSeq(sent, at[n], last(at[n])), at[n] - 1, last(at[n])>>]

\* token_fn(sents) for the tokenizer fn of the pipeline, sents written ss
TokenFn(fn, ss) ==
    [i \in DOMAIN ss |->
        IF fn = "fine" THEN __tok_fine(ss[i]) ELSE __tok_coarse(ss[i])]

\* __token_with_indices(token_fn)(sent_with_index); a pair is <<sent, index>>
__token_with_indices(fn, sent_with_index) ==
    LET ss    == [i \in DOMAIN sent_with_index |-> sent_with_index[i][1]]
        tokens == TokenFn(fn, ss)
    IN  [i \in DOMAIN tokens |->
            [j \in DOMAIN tokens[i] |->
                <<tokens[i][j][1],
                  tokens[i][j][2] + sent_with_index[i][2],
                  tokens[i][j][3] + sent_with_index[i][2]>>]]

\* [[token for token, start, end in items] for items in token_with_span]
__remove_span(token_with_span) ==
    [i \in DOMAIN token_with_span |->
        [j \in DOMAIN token_with_span[i] |-> token_with_span[i][j][1]]]

\* the CTB tagger: one tag per token
__pos_ctb9(token) ==
    [i \in DOMAIN token |->
        [j \in DOMAIN token[i] |->
            IF token[i][j][1] \in WordChar THEN "NN" ELSE "PU"]]

\* the PKU tagger: one tag per token
__pos_pku(token) ==
    [i \in DOMAIN token |->
        [j \in DOMAIN token[i] |->
            IF token[i][j][1] \in WordChar THEN "n" ELSE "w"]]

\* the types the recognizer may give an entity
NerTypes == {"ORGANIZATION", "PERSON"}

\* the recognizer on the token lists: every token that starts with a
\* capital is an entity of type ty, located by its place in the token list
\* of its sentence
__ner(ty, token) ==
    [i \in DOMAIN token |->
        LET at == SelectSeq([j \in DOMAIN token[i] |-> j],
                            LAMBDA j : token[i][j][1] \in Upper)
        IN  [n \in DOMAIN at |-> <<token[i][at[n]], ty, at[n] - 1, at[n]>>]]

\* sum(sentences, [])
__sum(sentences) == Flatten(sentences)

\* Term(token=..., pos_ctb=..., pos_pku=..., span=(start, end)): the model
\* class has the fields token, pos_ctb and pos_pku only
Term(token, pos_ctb, pos_pku, span) ==
    [token |-> token, pos_ctb |-> pos_ctb, pos_pku |-> pos_pku]

\* __zip_sentence_with_span(tok, pos9, posp)
__zip_sentence_with_span(tok, pos9, posp) ==
    [j \in DOMAIN tok |->
        Term(tok[j][1], pos9[j], posp[j], <<tok[j][2], tok[j][3]>>)]

\* __zip_for_paragraph(token, pos_ctb9, pos_pku)
__zip_for_paragraph(token, pos_ctb9, pos_pku) ==
    Flatten([i \in DOMAIN token |->
                __zip_sentence_with_span(token[i], pos_ctb9[i], pos_pku[i])])

\* [item for item in items if item[1] == 'ORGANIZATION']
_filter_named_entities(items) ==
    SelectSeq(items, LAMBDA item : item[2] = "ORGANIZATION")

\* NamedEntity(entity=ne[0], type=ne[1], offset=ne[2:4]) for each entity
ne_response(named_entities) ==
    [n \in DOMAIN named_entities |->
        [entity |-> named_entities[n][1],
         type   |-> named_entities[n][2],
         offset |-> <<named_entities[n][3], named_entities[n][4]>>]]

\* the paragraphs: texts of at most MaxParagraphWords words that are not
\* blank (_analysis_batch passes no blank text to a pipeline)
MaxParagraphWords == 4

ParagraphWords == {<<"A", "a">>, <<"a">>, <<SP>>, <<QMARK>>, <<DOT>>}

ParagraphTexts ==
    {t \in PhrasesOver(ParagraphWords, MaxParagraphWords) : Strip(t) # <<>>}

\* a pipeline is called on a text: its first stage calls
\* split_sentence_with_index(text), best left at its default
ParagraphInit ==
    /\ pc = "wi_call"
    /\ arg = "str"
    /\ text \in ParagraphTexts
    /\ best = TRUE
    /\ token_fn \in {"fine", "coarse"}
    /\ doc = <<>>
    /\ response = <<>>
    /\ SplitIdle
    /\ BatchIdle
    /\ FilterIdle
    /\ answers = {}

\* the generator is exhausted: its pairs are stored under the output key
\* of the first stage
ParaSentences ==
    /\ pc = "done"
    /\ doc' = ("sentences_with_indices" :>
                  [n \in DOMAIN outIdx |-> <<outIdx[n].sent, outIdx[n].index>>])
    /\ pc' = "para_token_with_span"
    /\ UNCHANGED <<splitVars, batchVars, filterVars, answers, token_fn, response>>

\* .append(__token_with_indices(tok), input_key='sentences_with_indices',
\*         output_key=TOKEN_WITH_SPAN)
ParaTokenWithIndices ==
    /\ pc = "para_token_with_span"
    /\ doc' = doc @@ ("token_with_span" :>
                  __token_with_indices(token_fn, doc["sentences_with_indices"]))
    /\ pc' = "para_token"
    /\ UNCHANGED <<splitVars, batchVars, filterVars, answers, token_fn, response>>

\* .append(__remove_span, input_key=TOKEN_WITH_SPAN, output_key=TOKEN)
ParaRemoveSpan ==
    /\ pc = "para_token"
    /\ doc' = doc @@ ("token" :> __remove_span(doc["token_with_span"]))
    /\ pc' = "para_pos_ctb"
    /\ UNCHANGED <<splitVars, batchVars, filterVars, answers, token_fn, response>>

\* .append(__pos_ctb9, input_key=TOKEN, output_key=POS_CTB)
ParaPosCtb ==
    /\ pc = "para_pos_ctb"
    /\ doc' = doc @@ ("pos_ctb" :> __pos_ctb9(doc["token"]))
    /\ pc' = "para_pos_pku"
    /\ UNCHANGED <<splitVars, batchVars, filterVars, answers, token_fn, response>>

\* .append(__pos_pku, input_key=TOKEN, output_key=POS_PKU)
ParaPosPku ==
    /\ pc = "para_pos_pku"
    /\ doc' = doc @@ ("pos_pku" :> __pos_pku(doc["token"]))
    /\ pc' = "para_ner"
    /\ UNCHANGED <<splitVars, batchVars, filterVars, answers, token_fn, response>>

\* .append(__ner, input_key=TOKEN, output_key=NAMED_ENTITIES)
ParaNer ==
    /\ pc = "para_ner"
    /\ \E ty \in NerTypes :
          doc' = doc @@ ("named_entities" :> __ner(ty, doc["token"]))
    /\ pc' = "para_sum"
    /\ UNCHANGED <<splitVars, batchVars, filterVars, answers, token_fn, response>>

\* .append(__sum, input_key=NAMED_ENTITIES, output_key=NAMED_ENTITIES)
ParaSum ==
    /\ pc = "para_sum"
    /\ doc' = [doc EXCEPT !["named_entities"] = __sum(@)]
    /\ pc' = "para_terms"
    /\ UNCHANGED <<splitVars, batchVars, filterVars, answers, token_fn, response>>

\* .append(__zip_for_paragraph, input_key=(TOKEN_WITH_SPAN, POS_CTB,
\*         POS_PKU), output_key=TERMS)
ParaZip ==
    /\ pc = "para_terms"
    /\ doc' = doc @@ ("terms" :>
                  __zip_for_paragraph(doc["token_with_span"], doc["pos_ctb"],
                                      doc["pos_pku"]))
    /\ pc' = "para_process"
    /\ UNCHANGED <<splitVars, batchVars, filterVars, answers, token_fn, response>>

\* _process_paragraph(docs) with no allow sets: the terms as they are, the
\* organizations among the named entities
ParaProcess ==
    /\ pc = "para_process"
    /\ response' =
          [terms          |-> doc["terms"],
           named_entities |->
               ne_response(_filter_named_entities(doc["named_entities"]))]
    /\ pc' = "para_done"
    /\ UNCHANGED <<splitVars, batchVars, filterVars, answers, token_fn, doc>>

ParagraphNext ==
    \/ WICall
    \/ WIStart
    \/ WIYieldChunk
    \/ WIMatch
    \/ WIYieldSentence
    \/ WIReturn
    \/ ParaSentences
    \/ ParaTokenWithIndices
    \/ ParaRemoveSpan
    \/ ParaPosCtb
    \/ ParaPosPku
    \/ ParaNer
    \/ ParaSum
    \/ ParaZip
    \/ ParaProcess

ParagraphSpec == ParagraphInit /\ [][ParagraphNext]_vars

\* ------------------------------------------------------------------------
\* What the caller has collected
\* ------------------------------------------------------------------------
\* the sentence texts of a sequence of yields
Sentences(o) == [n \in DOMAIN o |-> o[n].sent]

SSDone == pc \in {"wi_call", "wi_new", "wi_loop", "wi_sents", "done"}
Done == pc = "done"

\* the non-whitespace characters of s, in order
NonWs(s) == SelectSeq(s, LAMBDA c : c \notin Whitespace)

AllWhitespace(s) == \A n \in DOMAIN s : s[n] \in Whitespace

\* a sentence text is trimmed: not empty, no whitespace at either end
Trimmed(s) ==
    /\ s # <<>>
    /\ s[1] \notin Whitespace
    /\ s[Len(s)] \notin Whitespace

\* the stripped chunk a yield of split_sentence was cut from
SSChunkOf(y) == Strip(chunks[y.chunk])

\* the chunk a yield of split_sentence_with_index was cut from
WIChunkOf(y) == segments[y.chunk].chunk_text

\* a yield cut from chunk c keeps together every abbreviation of the given
\* form: if it holds the period before the gap, it holds the word
\* character after the gap (offsets in c: the pattern starts at q - 1, the
\* period is 3 before its end and the word character is its last character)
KeepsTogether(regex, c, y) ==
    \A q \in DOMAIN c :
        LET n      == AbbrevMatchLen(regex, c, q)
            period == q - 1 + n - 3
            word   == q - 1 + n - 1
        IN  (n > 0 /\ y.start <= period /\ period < y.start + Len(y.sent))
                => word < y.start + Len(y.sent)

\* some abbreviation of the given form lies in chunk c, and y holds its period
SpansAbbrev(regex, c, y) ==
    \E q \in DOMAIN c :
        LET n      == AbbrevMatchLen(regex, c, q)
            period == q - 1 + n - 3
        IN  n > 0 /\ y.start <= period /\ period < y.start + Len(y.sent)

\* ------------------------------------------------------------------------
\* Claims
\* ------------------------------------------------------------------------

\* C1 as stated: in best mode, for every pair (s, i) yielded by
\* split_sentence_with_index, text[i : i+len(s)] == s.
C1_OffsetExact ==
    best => \A n \in DOMAIN outIdx :
                Slice(text, outIdx[n].index, outIdx[n].index + Len(outIdx[n].sent))
                    = outIdx[n].sent

\* C1 amended: in best mode, for every pair (s, i) yielded by
\* split_sentence_with_index, the sentence lies inside the text at offset i
\* and agrees with text[i : i+len(s)] at every position, except at the gap
\* of an abbreviation (after a period, before a word character): there the
\* text holds a whitespace character or '@' and s holds an ASCII space, or
\* a '@' the restorer left.
C1_OffsetUpToRestoredGap ==
    best => \A n \in DOMAIN outIdx :
                LET s == outIdx[n].sent
                    i == outIdx[n].index
                IN  /\ i + Len(s) <= Len(text)
                    /\ \A j \in DOMAIN s :
                          \/ s[j] = text[i + j]
                          \/ /\ s[j] \in {SP, SEPARATOR}
                             /\ text[i + j] \in Whitespace \cup {SEPARATOR}
                             /\ 1 < j /\ j < Len(s)
                             /\ s[j - 1] = DOT
                             /\ s[j + 1] \in WordChar

\* C1 witness: a sentence yielded at an offset past the start of the text,
\* in which the restorer put a space where the text has a tab
C1_Witness ==
    /\ best
    /\ \E n \in DOMAIN outIdx :
          /\ outIdx[n].index > 0
          /\ \E j \in DOMAIN outIdx[n].sent :
                /\ outIdx[n].sent[j] = SP
                /\ text[outIdx[n].index + j] = TAB

\* C2: in best mode, once both generators are exhausted, the sentence texts
\* yielded by split_sentence_with_index equal those yielded by
\* split_sentence, in the same order.
C2_SameSentencesBest ==
    (Done /\ best) => Sentences(outIdx) = Sentences(out)

\* C3: the non-whitespace characters of the sentences yielded by
\* split_sentence(text), concatenated in order, are the non-whitespace
\* characters of the text.
C3_NoContentLost ==
    SSDone => NonWs(Flatten(Sentences(out))) = NonWs(text)

C5_AcronymProtected ==
    best => /\ \A n \in DOMAIN out :
                  KeepsTogether("AB_ACRONYM", SSChunkOf(out[n]), out[n])
            /\ \A n \in DOMAIN outIdx :
                  KeepsTogether("AB_ACRONYM", WIChunkOf(outIdx[n]), outIdx[n])

\* C5 witness: both generators have yielded a sentence that holds the second
\* period of an acronym form, split_sentence one with more text than the
\* acronym form
C5_Witness ==
    /\ best
    /\ \E n \in DOMAIN out :
          /\ SpansAbbrev("AB_ACRONYM", SSChunkOf(out[n]), out[n])
          /\ Len(out[n].sent) > 5
    /\ \E n \in DOMAIN outIdx :
          SpansAbbrev("AB_ACRONYM", WIChunkOf(outIdx[n]), outIdx[n])

\* C6: in either mode the offsets yielded by split_sentence_with_index are
\* non-decreasing along the output.
C6_OffsetsNonDecreasing ==
    \A n \in DOMAIN outIdx :
        n > 1 => outIdx[n - 1].index <= outIdx[n].index

\* C6 witness: three yields, the last two from different chunks
C6_Witness ==
    /\ Len(outIdx) >= 3
    /\ outIdx[2].chunk # outIdx[3].chunk
    /\ outIdx[1].index < outIdx[2].index

\* C7: in either mode no sentence yielded by split_sentence or by
\* split_sentence_with_index is empty or begins or ends with whitespace.
C7_Trimmed ==
    /\ \A n \in DOMAIN out : Trimmed(out[n].sent)
    /\ \A n \in DOMAIN outIdx : Trimmed(outIdx[n].sent)

\* C8: the offsets of the text at which the four sequential substitutions of
\* split_sentence insert a line break are exactly the break points
\* split_sentence_with_index computes from the four rules on the unmodified
\* text.
C8_BreakPointsAgree ==
    pc \in {"wi_loop", "wi_sents", "done"}
        => InsertedAt(norm) = Range(split_points)

\* C8 witness: break points from two different rules, one of them the
\* closing-quote rule
C8_Witness ==
    /\ pc = "wi_loop"
    /\ Len(split_points) >= 2
    /\ \E p \in Range(split_points) :
          text[p] \in ClosingQuote /\ p \in InsertedAt(norm)

\* C9: in naive mode, once both generators are exhausted, the chunk texts
\* yielded by split_sentence_with_index equal those yielded by
\* split_sentence, whose boundaries are the line breaks of the input and the
\* inserted ones.
C9_SameChunksNaive ==
    (Done /\ ~best) => Sentences(outIdx) = Sentences(out)

\* C10: for the empty text and for a text of whitespace only, both
\* generators yield nothing, in either mode.
C10_DegenerateYieldsNothing ==
    AllWhitespace(text) => out = <<>> /\ outIdx = <<>>

\* C10 witness: both generators are exhausted on a non-empty text of
\* whitespace with a line break in it
C10_Witness ==
    /\ Done
    /\ Len(text) >= 2 /\ AllWhitespace(text)
    /\ \E n \in DOMAIN text : text[n] = NL

\* the guarded chunk has no match of _RE_SENTENCE
Unmatched(chunk) == SentenceSpans(Guard(chunk), 1) = <<>>

\* C11: in best mode, for every non-empty trimmed chunk in which the
\* sentence pattern finds no match, exactly one sentence is yielded for the
\* chunk and it is the chunk text verbatim; split_sentence_with_index
\* yields it with the chunk's base offset, the offset of the text at which
\* the chunk text stands.
C11_UnmatchedChunkFallback ==
    best =>
        /\ SSDone =>
              \A c \in DOMAIN chunks :
                  (Strip(chunks[c]) # <<>> /\ Unmatched(Strip(chunks[c])))
                      => \E n \in DOMAIN out :
                            /\ out[n].chunk = c
                            /\ out[n].sent = Strip(chunks[c])
                            /\ \A m \in DOMAIN out : out[m].chunk = c => m = n
        /\ Done =>
              \A c \in DOMAIN segments :
                  Unmatched(segments[c].chunk_text)
                      => \E n \in DOMAIN outIdx :
                            LET y == outIdx[n]
                            IN  /\ y.chunk = c
                                /\ y.sent = segments[c].chunk_text
                                /\ y.index = segments[c].base_index
                                /\ Slice(text, y.index, y.index + Len(y.sent))
                                       = y.sent
                                /\ \A m \in DOMAIN outIdx :
                                       outIdx[m].chunk = c => m = n

\* C11 witness: both generators are exhausted in best mode; the last chunk
\* of each has no match, follows another chunk and, in the offset form,
\* follows whitespace that was trimmed
C11_Witness ==
    /\ Done /\ best
    /\ Len(chunks) >= 2 /\ Len(segments) >= 2
    /\ Strip(chunks[Len(chunks)]) # <<>>
    /\ Unmatched(Strip(chunks[Len(chunks)]))
    /\ Unmatched(segments[Len(segments)].chunk_text)
    /\ segments[Len(segments)].base_index > split_points[Len(split_points)]

\* C12: called with an object that is not a string, split_sentence and
\* split_sentence_with_index raise at the call itself: once the call has
\* returned, the error of that call has been raised.
C12_InvalidSignalledAtCall ==
    arg # "str" =>
        /\ pc # "ss_call"
              => [fn |-> "split_sentence", at |-> "call"] \in raised
        /\ pc \in {"wi_new", "done"}
              => [fn |-> "split_sentence_with_index", at |-> "call"] \in raised

\* how far the caller has come: the call it is in, the position of the
\* chunk loop and the position of the sentence loop, as one number
Phase ==
    CASE pc = "ss_call" -> 0
      [] pc = "ss_new" -> 1
      [] pc \in {"ss_loop", "ss_sents"} -> 2
      [] pc = "wi_call" -> 3
      [] pc = "wi_new" -> 4
      [] pc \in {"wi_loop", "wi_sents"} -> 5
      [] OTHER -> 6

LoopIndex == IF Phase = 2 THEN ci ELSE IF Phase = 5 THEN si ELSE 0

SentIndex == IF pc \in {"ss_sents", "wi_sents"} THEN k ELSE 0

Width == 2 * Len(text) + 3

Position == (Phase * Width + LoopIndex) * Width + SentIndex

\* the caller has a step to take: the guards of the actions, by position
CanStep ==
    \/ pc \in {"ss_call", "ss_new", "wi_call", "wi_new"}
    \/ pc = "ss_loop" /\ ci \in 1..(Len(chunks) + 1)
    \/ pc = "wi_loop" /\ si \in 1..(Len(segments) + 1)
    \/ pc \in {"ss_sents", "wi_sents"} /\ k \in 1..Len(sents)

\* C13: for every string and either mode, iterating split_sentence and
\* then split_sentence_with_index to exhaustion comes to an end: every step
\* moves the caller forward through finitely many positions and a step is
\* possible until both are exhausted; neither raises an exception, and each
\* yields at most one sentence per non-whitespace character of the text.
C13_TerminatesWithoutError ==
    /\ [](arg = "str" =>
             /\ raised = {}
             /\ Len(out) <= Len(NonWs(text))
             /\ Len(outIdx) <= Len(NonWs(text))
             /\ LoopIndex < Width /\ SentIndex < Width
             /\ Done \/ CanStep)
    /\ [][arg = "str" => Position' > Position]_vars

\* C13 witness: both generators are exhausted on a string with line breaks
\* in it, and split_sentence has yielded one sentence for every
\* non-whitespace character
C13_Witness ==
    /\ Done /\ arg = "str"
    /\ Len(out) = Len(NonWs(text)) /\ Len(out) >= 2
    /\ \E n \in DOMAIN text : text[n] = NL

\* the result the batch owes a text: the empty result for a blank text,
\* else what the pipeline for its length makes of it
ResultFor(t) ==
    IF Strip(t) = <<>> THEN empty_result
    ELSE IF Len(t) > 120
         THEN _process_paragraph(paragraph_pipeline(t))
         ELSE _process_paragraph(sentence_pipeline(<<t>>)[1])

\* no pipeline was given an empty or whitespace-only text
NoBlankCalls ==
    \A c \in DOMAIN calls :
        IF calls[c].pipeline = "paragraph"
        THEN Strip(calls[c].input) # <<>>
        ELSE \A n \in DOMAIN calls[c].input : Strip(calls[c].input[n]) # <<>>

\* C14: _analysis_batch returns a list as long as texts whose position k
\* holds the result for texts[k]; an empty or whitespace-only text gets the
\* empty result and no pipeline is ever given one.
C14_BatchShapeAndOrder ==
    /\ NoBlankCalls
    /\ pc = "batch_done" =>
          /\ Len(ret) = Len(texts)
          /\ \A n \in DOMAIN texts : ret[n] = ResultFor(texts[n])

\* C14 witness: a batch of three has returned; the first and the last text
\* are the same long text, the middle one is blank and not empty
C14_Witness ==
    /\ pc = "batch_done"
    /\ Len(texts) = 3
    /\ texts[1] = texts[3] /\ Len(texts[1]) > 120 /\ Strip(texts[1]) # <<>>
    /\ texts[2] # <<>> /\ Strip(texts[2]) = <<>>
    /\ Len(calls) = 2

\* C15: whenever a non-empty allow_pos_ctb is passed to _filter_terms, with
\* or without allow_pos_pku, every returned term has its pos_ctb in it; and
\* whenever a non-empty allow_pos_pku is passed, every returned term has its
\* pos_pku in it.
C15_FilterKeepsAllowedOnly ==
    pc = "filter_done" =>
        /\ Truthy(allow_pos_ctb)
              => \A n \in DOMAIN res : res[n].pos_ctb \in allow_pos_ctb.tags
        /\ Truthy(allow_pos_pku)
              => \A n \in DOMAIN res : res[n].pos_pku \in allow_pos_pku.tags

\* C16: should_split(text) is true exactly when the text has more than 120
\* characters, each character counting one, and
\* _should_use_paragraph_pipeline(text) answers the same.
C16_LengthThreshold ==
    pc = "len_done" =>
        answers = {<<"should_split", Len(text) > 120>>,
                   <<"_should_use_paragraph_pipeline", Len(text) > 120>>}

\* C16 witness: both were asked about a text of exactly 120 CJK characters
\* and answered no
C16_Witness ==
    /\ pc = "len_done"
    /\ Len(text) = 120 /\ text[1] = CJKCHAR
    /\ <<"should_split", FALSE>> \in answers

\* split_sentence has rewritten the text
Normalized == arg = "str" /\ pc \notin {"ss_call", "ss_new"}

\* split_sentence_with_index has computed its break points as well
BreakPointsKnown == arg = "str" /\ pc \in {"wi_loop", "wi_sents", "done"}

\* the break points of either form, as offsets of the text
Breaks == InsertedAt(norm) \cup Range(split_points)

\* first and last position of the maximal run of characters of S that
\* holds position i of t
RunStart(t, i, S) ==
    CHOOSE j \in 1..i :
        /\ \A m \in j..i : t[m] \in S
        /\ j = 1 \/ t[j - 1] \notin S

RunEnd(t, i, S) ==
    CHOOSE j \in i..Len(t) :
        /\ \A m \in i..j : t[m] \in S
        /\ j = Len(t) \/ t[j + 1] \notin S

\* a terminal mark followed by a character that is no closing quote
BreakableMark(i) ==
    /\ text[i] \in Terminal
    /\ i < Len(text)
    /\ text[i + 1] \notin ClosingQuote

\* the mark is the first, third, ... of its run of terminal marks
OddInRun(i) == (i - RunStart(text, i, Terminal)) % 2 = 0

\* C17 as stated: in the normalized text every terminal mark of the input
\* that is followed by a character other than a closing quote is
\* immediately followed by an inserted line break, each mark of a run of
\* terminal marks included.
C17_EveryTerminalBreaks ==
    Normalized =>
        \A i \in DOMAIN text : BreakableMark(i) => i \in InsertedAt(norm)

\* C17 amended: in the normalized text a terminal mark of the input is
\* immediately followed by an inserted line break exactly when it is
\* followed by a character other than a closing quote and stands at an odd
\* place (first, third, ...) of its run of consecutive terminal marks; a
\* mark at an even place is the character the substitution consumed after
\* the mark before it and gets no line break.
C17_TerminalBreaksAlternate ==
    Normalized =>
        \A i \in DOMAIN text :
            text[i] \in Terminal
                => (i \in InsertedAt(norm) <=> (BreakableMark(i) /\ OddInRun(i)))

\* C17 witness: the text is normalized; the second mark of a run of three
\* is followed by a mark and gets no line break, the third is followed by
\* a letter and gets one
C17_Witness ==
    /\ Normalized
    /\ \E i \in DOMAIN text :
          /\ i + 3 <= Len(text)
          /\ \A m \in i..(i + 2) : text[m] \in Terminal
          /\ RunStart(text, i, Terminal) = i
          /\ text[i + 3] \in Letter
          /\ i + 1 \notin InsertedAt(norm)
          /\ i + 2 \in InsertedAt(norm)

\* C18: a break point after an ASCII period comes only at the end of a run
\* of exactly six periods, and one after an ellipsis character only at the
\* end of a run of exactly two, each followed by a character that is no
\* closing quote; there is no break point inside a longer run.
C18_ExactRunLengths ==
    BreakPointsKnown =>
        \A i \in DOMAIN text :
            (text[i] \in {DOT, ELLIPSIS} /\ i \in Breaks)
                => /\ i = RunEnd(text, i, {text[i]})
                   /\ i - RunStart(text, i, {text[i]}) + 1
                         = (IF text[i] = DOT THEN 6 ELSE 2)
                   /\ i < Len(text)
                   /\ text[i + 1] \notin ClosingQuote

\* C19: for every terminal mark immediately followed by a closing quote
\* there is no break point between the mark and the quote, and there is one
\* directly after the quote exactly when a further character follows that
\* is neither the CJK comma nor a terminal mark.
C19_ClosingQuoteHandling ==
    BreakPointsKnown =>
        \A i \in DOMAIN text :
            (text[i] \in Terminal /\ i < Len(text) /\ text[i + 1] \in ClosingQuote)
                => /\ i \notin Breaks
                   /\ \A B \in {InsertedAt(norm), Range(split_points)} :
                         i + 1 \in B
                             <=> /\ i + 2 <= Len(text)
                                 /\ text[i + 2] \notin {CJKCOMMA} \cup Terminal

\* C19 witness: a mark and a closing quote, the mark itself following
\* another mark, with a break point after the quote in both forms
C19_Witness ==
    /\ BreakPointsKnown
    /\ \E i \in DOMAIN text :
          /\ i > 1 /\ text[i - 1] \in Terminal
          /\ text[i] \in Terminal
          /\ i < Len(text) /\ text[i + 1] \in ClosingQuote
          /\ i + 1 \in InsertedAt(norm) \cap Range(split_points)

\* the untrimmed chunks text[prev:sp] for the break points sps, and the tail
UntrimmedChunks(t, sps) ==
    [n \in 1..(Len(sps) + 1) |->
        Slice(t, IF n = 1 THEN 0 ELSE sps[n - 1],
                 IF n > Len(sps) THEN Len(t) ELSE sps[n])]

\* C20: in split_sentence_with_index the accepted break points are
\* strictly increasing and lie strictly between 0 and len(text), every
\* computed break point is accepted, and the untrimmed chunks text[prev:sp]
\* with the tail are non-empty and make up the text when concatenated in
\* order.
C20_BreakPointsMonotone ==
    (BreakPointsKnown /\ text # <<>>) =>
        LET acc == Accepted(split_points, 0)
            cks == UntrimmedChunks(text, acc)
        IN  /\ acc = split_points
            /\ \A n \in DOMAIN acc :
                  /\ 0 < acc[n] /\ acc[n] < Len(text)
                  /\ n > 1 => acc[n - 1] < acc[n]
            /\ \A n \in DOMAIN cks : cks[n] # <<>>
            /\ Flatten(cks) = text

\* C20 witness: two break points, one after a closing quote and one after
\* a terminal mark, in a text that goes on after the last of them
C20_Witness ==
    /\ BreakPointsKnown
    /\ Len(split_points) >= 2
    /\ \E n \in DOMAIN split_points : text[split_points[n]] \in ClosingQuote
    /\ \E n \in DOMAIN split_points : text[split_points[n]] \in Terminal

\* the greatest break point at or before offset i, 0 if there is none
PrecedingBreak(i) ==
    LET before == {p \in Range(split_points) : p <= i}
    IN  IF before = {} THEN 0 ELSE CHOOSE p \in before : \A q \in before : q <= p

\* C21: in naive mode every pair (c, i) yielded by
\* split_sentence_with_index is an exact slice of the text,
\* text[i : i+len(c)] == c, text[i] is not whitespace, and every character
\* of the text between the preceding break point (or the start of the
\* text) and i is whitespace.
C21_NaiveChunkOffset ==
    ~best => \A n \in DOMAIN outIdx :
                 LET c == outIdx[n].sent
                     i == outIdx[n].index
                 IN  /\ c # <<>>
                     /\ i + Len(c) <= Len(text)
                     /\ Slice(text, i, i + Len(c)) = c
                     /\ text[i + 1] \notin Whitespace
                     /\ AllWhitespace(Slice(text, PrecedingBreak(i), i))

\* C21 witness: a naive chunk yielded past a break point, with whitespace
\* between the break point and the chunk
C21_Witness ==
    /\ ~best
    /\ \E n \in DOMAIN outIdx :
          /\ PrecedingBreak(outIdx[n].index) > 0
          /\ outIdx[n].index > PrecedingBreak(outIdx[n].index)

\* the chunk the generator at work has passed to the guard
CurrentChunk ==
    IF pc = "ss_sents" THEN Strip(chunks[ci]) ELSE segments[si].chunk_text

\* g differs from x only where x holds whitespace and g the placeholder
OnlyGapsReplaced(x, g) ==
    /\ Len(g) = Len(x)
    /\ \A j \in DOMAIN x :
          g[j] # x[j] => (x[j] \in Whitespace /\ g[j] = SEPARATOR)

\* neither abbreviation pattern matches anywhere in x
NoAbbrev(x) ==
    \A q \in DOMAIN x :
        /\ AbbrevMatchLen("AB_SENIOR", x, q) = 0
        /\ AbbrevMatchLen("AB_ACRONYM", x, q) = 0

\* C22: _replace_with_separator(x, '@', [title, acronym]) has the length
\* of x and differs from x only at positions where x holds a whitespace
\* character and the result holds '@'; with an empty rule list, or when no
\* rule matches, it returns x unchanged.  Stated of the guarded text the
\* sentence loop of either generator works on and the chunk it was made
\* from.
C22_GuardFrame ==
    pc \in {"ss_sents", "wi_sents"} =>
        /\ OnlyGapsReplaced(CurrentChunk, processed)
        /\ NoAbbrev(CurrentChunk) => processed = CurrentChunk
        /\ replace_with_separator(CurrentChunk, SEPARATOR, <<>>) = CurrentChunk

\* C22 witness: the sentence loop runs on a guarded chunk in which a
\* pattern has replaced a tab, and which holds a '@' of its own elsewhere
C22_Witness ==
    /\ pc = "wi_sents"
    /\ \E i, j \in DOMAIN processed :
          /\ processed[i] = SEPARATOR /\ segments[si].chunk_text[i] = TAB
          /\ processed[j] = SEPARATOR /\ segments[si].chunk_text[j] = SEPARATOR

\* the positions (1-based, in the yielded sentence) of yield y cut from
\* chunk c where the guard replaced a whitespace character of c by '@'
GuardInserted(c, y) ==
    {j \in DOMAIN y.sent :
        /\ y.start + j <= Len(c)
        /\ Guard(c)[y.start + j] = SEPARATOR
        /\ c[y.start + j] \in Whitespace}

\* C23: in best mode, in every sentence yielded by either generator, each
\* position where the guard replaced a whitespace character of the chunk
\* by '@' holds an ASCII space; no '@' inserted by the guard is yielded,
\* whether or not the text holds '@' of its own.
C23_EveryPlaceholderReverted ==
    best =>
        /\ \A n \in DOMAIN out :
              \A j \in GuardInserted(SSChunkOf(out[n]), out[n]) :
                  out[n].sent[j] = SP
        /\ \A n \in DOMAIN outIdx :
              \A j \in GuardInserted(WIChunkOf(outIdx[n]), outIdx[n]) :
                  outIdx[n].sent[j] = SP

\* C24: in best mode no sentence yielded by split_sentence holds, before
\* its last character, a '.', '!' or '?' that is followed by whitespace in
\* the guarded chunk: every such mark that the guard has not protected
\* ends a sentence.
C24_TerminalEndsSentence ==
    best => \A n \in DOMAIN out :
                LET g == Guard(SSChunkOf(out[n]))
                    b == out[n].start
                IN  \A j \in 1..(Len(out[n].sent) - 1) :
                        ~(g[b + j] \in SentenceEnd /\ g[b + j + 1] \in Whitespace)

\* C25: the break scan runs ahead of the caller by one chunk at most.
\* While split_sentence works on chunk ci, the line breaks it has inserted
\* are those that end the chunks up to ci; while
\* split_sentence_with_index works on segment si, no break point it has
\* found lies past the end of that segment.  The break points of later
\* chunks are found only after the sentences of the earlier chunks have
\* been yielded, so the first sentence is yielded before the scan has
\* covered the whole text.
C25_ScanFollowsYields ==
    /\ (pc \in {"ss_loop", "ss_sents"} /\ ci <= Len(chunks))
          => Cardinality(InsertedAt(norm)) <= ci
    /\ (pc \in {"wi_loop", "wi_sents"} /\ si <= Len(segments))
          => \A p \in Range(split_points) :
                 p <= segments[si].base_index + Len(segments[si].chunk_text)

\* the pairs (sentence, base offset) the pipeline works on
SentWithIndex == doc["sentences_with_indices"]

\* every token span of the pipeline is the span the tokenizer returned for
\* the sentence, shifted by the base offset of the sentence
TokenSpansShifted ==
    "token_with_span" \in DOMAIN doc =>
        \A i \in DOMAIN SentWithIndex :
            LET raw == TokenFn(token_fn, <<SentWithIndex[i][1]>>)[1]
                b   == SentWithIndex[i][2]
            IN  /\ DOMAIN doc["token_with_span"][i] = DOMAIN raw
                /\ \A j \in DOMAIN raw :
                      doc["token_with_span"][i][j]
                          = <<raw[j][1], raw[j][2] + b, raw[j][3] + b>>

\* the entities the recognizer finds with type ty, per sentence, each span
\* shifted by the base offset of its sentence, merged in order
ShiftedEntities(ty) ==
    LET found == __ner(ty, doc["token"])
    IN  Flatten([i \in DOMAIN found |->
                    [n \in DOMAIN found[i] |->
                        <<found[i][n][1], found[i][n][2],
                          found[i][n][3] + SentWithIndex[i][2],
                          found[i][n][4] + SentWithIndex[i][2]>>]])

\* the merged named entities, and the entities of the response, carry
\* spans shifted by the base offset of their sentence
EntitySpansShifted ==
    /\ pc \in {"para_terms", "para_process", "para_done"} =>
          \E ty \in NerTypes : doc["named_entities"] = ShiftedEntities(ty)
    /\ pc = "para_done" =>
          \E ty \in NerTypes :
              response.named_entities
                  = ne_response(_filter_named_entities(ShiftedEntities(ty)))

\* C26: in a paragraph pipeline, for every sentence with base offset b
\* returned by split_sentence_with_index, every token span the tokenizer
\* returns for the sentence and every named-entity span found in the
\* sentence is shifted by b before the per-sentence results are merged.
C26_SpansShiftedByBase ==
    /\ TokenSpansShifted
    /\ EntitySpansShifted

\* C27: in best mode every pair (s, i) yielded by
\* split_sentence_with_index lies inside the text, 0 <= i and
\* i + len(s) <= len(text), starts at a non-whitespace character of the
\* text, s[0] == text[i], and at every position k either
\* s[k] == text[i+k], or s[k] is an ASCII space and text[i+k] is a
\* whitespace character or '@'.
C27_OffsetUpToRestoredWhitespace ==
    best => \A n \in DOMAIN outIdx :
                LET s == outIdx[n].sent
                    i == outIdx[n].index
                IN  /\ 0 <= i
                    /\ i + Len(s) <= Len(text)
                    /\ s # <<>>
                    /\ s[1] = text[i + 1]
                    /\ s[1] \notin Whitespace
                    /\ \A j \in DOMAIN s :
                          \/ s[j] = text[i + j]
                          \/ /\ s[j] = SP
                             /\ text[i + j] \in Whitespace \cup {SEPARATOR}

\* C28: in either mode, for any two consecutive pairs (s1, i1), (s2, i2)
\* yielded by split_sentence_with_index, i1 + len(s1) <= i2: the yielded
\* spans do not overlap and their offsets strictly increase.
C28_SpansDoNotOverlap ==
    \A n \in DOMAIN outIdx :
        n > 1 =>
            /\ outIdx[n - 1].sent # <<>>
            /\ outIdx[n - 1].index + Len(outIdx[n - 1].sent) <= outIdx[n].index

\* C28 witness: in best mode two sentences of one chunk have been
\* yielded, with whitespace of the text between the end of the first and
\* the offset of the second
C28_Witness ==
    /\ best
    /\ \E n \in 2..Len(outIdx) :
          /\ outIdx[n].chunk = outIdx[n - 1].chunk
          /\ outIdx[n - 1].index + Len(outIdx[n - 1].sent) < outIdx[n].index
          /\ text[outIdx[n].index] \in Whitespace

\* the text is a single line and does not end with whitespace
SingleLineNoTrailingWs ==
    /\ arg = "str"
    /\ \A j \in DOMAIN text : text[j] # NL
    /\ text # <<>> => text[Len(text)] \notin Whitespace

\* C29: for a text with no line-break character that does not end with
\* whitespace, once both generators are exhausted the sentence texts
\* yielded by split_sentence_with_index equal those yielded by
\* split_sentence, in order, in best mode and in naive mode.
C29_SameSentencesSingleLine ==
    (Done /\ SingleLineNoTrailingWs) => Sentences(outIdx) = Sentences(out)

\* C29 witness: both generators are exhausted on such a text with
\* whitespace inside, split_sentence_with_index has yielded a sentence
\* that starts inside its chunk and one at an offset where trimming a chunk
\* moved it
C29_Witness ==
    /\ Done /\ SingleLineNoTrailingWs
    /\ \E j \in DOMAIN text : text[j] \in Whitespace
    /\ \E n \in DOMAIN outIdx : outIdx[n].start > 0
    /\ \E n \in DOMAIN outIdx :
          outIdx[n].start = 0 /\ outIdx[n].index > 0
             /\ text[outIdx[n].index] \in Whitespace

\* the text holds no '@'
NoSeparatorInText == arg = "str" /\ \A j \in DOMAIN text : text[j] # SEPARATOR

\* C30: for a text that holds no '@', no sentence yielded in best mode by
\* split_sentence or by split_sentence_with_index holds '@'.
C30_NoPlaceholderLeak ==
    (best /\ NoSeparatorInText) =>
        /\ \A n \in DOMAIN out :
              \A j \in DOMAIN out[n].sent : out[n].sent[j] # SEPARATOR
        /\ \A n \in DOMAIN outIdx :
              \A j \in DOMAIN outIdx[n].sent : outIdx[n].sent[j] # SEPARATOR

\* C30 witness: both generators are exhausted in best mode on a text
\* without '@', and a sentence has been yielded in which the guard had
\* replaced the whitespace after an acronym
C30_Witness ==
    /\ Done /\ best /\ NoSeparatorInText
    /\ \E n \in DOMAIN outIdx :
          LET c == WIChunkOf(outIdx[n])
          IN  /\ GuardInserted(c, outIdx[n]) # {}
              /\ \E q \in DOMAIN c : AbbrevMatchLen("AB_ACRONYM", c, q) > 0

====
